---- MODULE Spec2Model ----
(***************************************************************************)
(* The process model library of src/utils/calculations.ts as a state       *)
(* machine.  One behaviour is one call of one generator: the call's        *)
(* arguments are chosen in Init, every loop iteration is one step, and     *)
(* `data` is the series built so far.                                      *)
(*                                                                         *)
(* The generators compute with JavaScript Numbers.  Their loops are        *)
(* controlled by accumulated Numbers (t += step, x += 0.02, distilled +=   *)
(* step), so the model keeps the arithmetic of the code: IEEE-754 binary64 *)
(* with round-to-nearest-even, built here on arbitrary-precision naturals. *)
(***************************************************************************)
EXTENDS Integers, Sequences, FiniteSets, TLC

----------------------------------------------------------------------------
(* Arbitrary-precision naturals: little-endian digit sequences in base     *)
(* Radix, without high zero digits (zero is the empty sequence).           *)

Radix == 2^15

RECURSIVE BNorm(_)
BNorm(a) ==
  IF a = <<>> THEN a
  ELSE IF a[Len(a)] = 0 THEN BNorm(SubSeq(a, 1, Len(a) - 1)) ELSE a

RECURSIVE BFromInt(_)
BFromInt(n) == IF n = 0 THEN <<>> ELSE <<n % Radix>> \o BFromInt(n \div Radix)

RECURSIVE BToIntFrom(_, _)
BToIntFrom(a, i) == IF i > Len(a) THEN 0 ELSE a[i] + Radix * BToIntFrom(a, i + 1)

\* the value of a natural known to fit a machine integer
BToInt(a) == BToIntFrom(a, 1)

Digit(a, i) == IF i <= Len(a) THEN a[i] ELSE 0

RECURSIVE BAddFrom(_, _, _, _)
BAddFrom(a, b, i, c) ==
  IF i > Len(a) /\ i > Len(b)
  THEN (IF c = 0 THEN <<>> ELSE <<c>>)
  ELSE LET x == Digit(a, i) + Digit(b, i) + c
       IN  <<x % Radix>> \o BAddFrom(a, b, i + 1, x \div Radix)

BAdd(a, b) == BAddFrom(a, b, 1, 0)

RECURSIVE BSubFrom(_, _, _, _)
BSubFrom(a, b, i, c) ==
  IF i > Len(a) THEN <<>>
  ELSE LET x == a[i] - Digit(b, i) - c
       IN  IF x < 0 THEN <<x + Radix>> \o BSubFrom(a, b, i + 1, 1)
                    ELSE <<x>> \o BSubFrom(a, b, i + 1, 0)

\* a - b for a >= b
BSub(a, b) == BNorm(BSubFrom(a, b, 1, 0))

RECURSIVE BCmpFrom(_, _, _)
BCmpFrom(a, b, i) ==
  IF i = 0 THEN 0
  ELSE IF a[i] < b[i] THEN -1
  ELSE IF a[i] > b[i] THEN 1
  ELSE BCmpFrom(a, b, i - 1)

\* -1, 0 or 1 as a < b, a = b or a > b
BCmp(a, b) ==
  IF Len(a) < Len(b) THEN -1
  ELSE IF Len(a) > Len(b) THEN 1
  ELSE BCmpFrom(a, b, Len(a))

RECURSIVE BMulSmallFrom(_, _, _, _)
BMulSmallFrom(a, d, i, c) ==
  IF i > Len(a)
  THEN (IF c = 0 THEN <<>> ELSE <<c>>)
  ELSE LET x == a[i] * d + c
       IN  <<x % Radix>> \o BMulSmallFrom(a, d, i + 1, x \div Radix)

\* a * d for a digit d < Radix
BMulSmall(a, d) == IF d = 0 THEN <<>> ELSE BMulSmallFrom(a, d, 1, 0)

\* a * Radix^k
BShiftDigits(a, k) == IF a = <<>> \/ k = 0 THEN a ELSE [i \in 1..k |-> 0] \o a

RECURSIVE BMulFrom(_, _, _)
BMulFrom(a, b, i) ==
  IF i > Len(b) THEN <<>>
  ELSE BAdd(BMulSmall(a, b[i]), BShiftDigits(BMulFrom(a, b, i + 1), 1))

BMul(a, b) == IF a = <<>> THEN <<>> ELSE BMulFrom(a, b, 1)

RECURSIVE BDivSmallFrom(_, _, _, _)
\* the digits of a \div d from digit i down, r the remainder carried in
BDivSmallFrom(a, d, i, r) ==
  IF i = 0 THEN <<>>
  ELSE LET x == r * Radix + a[i]
       IN  BDivSmallFrom(a, d, i - 1, x % d) \o <<x \div d>>

\* a \div d for 0 < d <= Radix
BDivSmall(a, d) == BNorm(BDivSmallFrom(a, d, Len(a), 0))

\* a * 2^k
BShl(a, k) == BShiftDigits(BMulSmall(a, 2^(k % 15)), k \div 15)

\* a \div 2^k
BShr(a, k) ==
  IF k \div 15 >= Len(a) THEN <<>>
  ELSE BDivSmall(SubSeq(a, (k \div 15) + 1, Len(a)), 2^(k % 15))

RECURSIVE IntBitLen(_)
IntBitLen(n) == IF n = 0 THEN 0 ELSE 1 + IntBitLen(n \div 2)

\* the number of binary digits of a
BBitLen(a) == IF a = <<>> THEN 0 ELSE 15 * (Len(a) - 1) + IntBitLen(a[Len(a)])

BIsOdd(a) == a # <<>> /\ a[1] % 2 = 1

RECURSIVE BPow10(_)
BPow10(n) == IF n = 0 THEN <<1>> ELSE BMulSmall(BPow10(n - 1), 10)

RECURSIVE BFix(_, _, _)
\* the quotient digit q <= qhat with d * q <= r
BFix(r, d, qhat) ==
  IF BCmp(BMulSmall(d, qhat), r) <= 0 THEN qhat ELSE BFix(r, d, qhat - 1)

\* the single digit r \div d, for d with its top digit >= Radix / 2 and r < d * Radix
BQuotDigit(r, d) ==
  LET n    == Len(d)
      top  == Digit(r, n + 1) * Radix + Digit(r, n)
      est  == top \div d[n]
      qhat == IF est > Radix - 1 THEN Radix - 1 ELSE est
  IN  BFix(r, d, qhat)

RECURSIVE BDivFrom(_, _, _, _)
\* long division of a's digits i..1 into r (the remainder so far, r < d):
\* <<quotient digits (little-endian), remainder>>
BDivFrom(a, d, i, r) ==
  IF i = 0 THEN <<(<<>>), r>>
  ELSE LET cur == BNorm(<<a[i]>> \o r)
           q   == BQuotDigit(cur, d)
       IN  CHOOSE res \in {LET rest == BDivFrom(a, d, i - 1, r1)
                            IN  <<rest[1] \o <<q>>, rest[2]>> :
                              r1 \in {BSub(cur, BMulSmall(d, q))}} : TRUE

\* <<a \div d, whether d divides a>> for d # 0
\* <<quotient, whether the remainder is zero>> of a long division's result
BDivResult(res) == <<BNorm(res[1]), res[2] = <<>>>>

\* the long division of an by dn, dn with its top digit >= Radix / 2
BDivNormalised(an, dn) == BDivResult(BDivFrom(an, dn, Len(an), <<>>))

\* a and d both scaled by 2^sh
BDivScaled(a, d, sh) == BDivNormalised(BShl(a, sh), BShl(d, sh))

\* <<a \div d, whether d divides a>> for d # 0
BDivExact(a, d) == BDivScaled(a, d, 15 - IntBitLen(d[Len(d)]))

----------------------------------------------------------------------------
(* JavaScript Numbers: IEEE-754 binary64.  A finite Number is                *)
(* (-1)^s * m * 2^e with the 53-bit significand m as a natural; normal       *)
(* Numbers have 2^52 <= m < 2^53, subnormal ones e = -1074, zero m = 0.      *)

NaN == [k |-> "nan", s |-> 0, m |-> <<>>, e |-> 0]

Infinity(s) == [k |-> "inf", s |-> s, m |-> <<>>, e |-> 0]

Zero(s) == [k |-> "fin", s |-> s, m |-> <<>>, e |-> 0]

Pack(s, m, e) ==
  IF m = <<>> THEN Zero(s)
  ELSE IF e > 971 THEN Infinity(s)
  ELSE [k |-> "fin", s |-> s, m |-> m, e |-> e]

\* the significand m1 (of at most 54 bits) at the exponent et, renormalised
RoundCarry(s, m1, et) ==
  Pack(s, IF BBitLen(m1) > 53 THEN BShr(m1, 1) ELSE m1,
          IF BBitLen(m1) > 53 THEN et + 1 ELSE et)

\* m0 rounded up or not: c compares the cut-off part with half a unit of m0
RoundUp(s, m0, c, sticky, et) ==
  RoundCarry(s, IF c > 0 \/ (c = 0 /\ (sticky \/ BIsOdd(m0))) THEN BAdd(m0, <<1>>)
                                                              ELSE m0, et)

\* n cut by sh > 0 binary digits to m0
RoundCut(s, n, sticky, sh, m0, et) ==
  RoundUp(s, m0, BCmp(BSub(n, BShl(m0, sh)), BShl(<<1>>, sh - 1)), sticky, et)

\* n # 0 rounded to the exponent et
RoundAt(s, n, sticky, e, et) ==
  IF et <= e THEN Pack(s, BShl(n, e - et), et)
  ELSE RoundCut(s, n, sticky, et - e, BShr(n, et - e), et)

\* the exponent of the 53-bit significand of a value of bl bits at exponent e
RoundExponent(e, bl) == IF e + bl - 53 > -1074 THEN e + bl - 53 ELSE -1074

\* the Number nearest to (-1)^s * (n + f) * 2^e, ties to even, where 0 < f < 1
\* if sticky and f = 0 otherwise
Round(s, n, sticky, e) ==
  IF n = <<>> THEN Zero(s)
  ELSE RoundAt(s, n, sticky, e, RoundExponent(e, BBitLen(n)))

\* the Number nearest to (-1)^s * (qr[1] + f) * 2^e, 0 < f < 1 unless qr[2]
RoundQuotient(s, qr, e) == Round(s, qr[1], ~qr[2], e)

\* n scaled by 2^k so that the quotient by d has at least 55 bits
RoundScaled(s, n, d, e, k) == RoundQuotient(s, BDivExact(BShl(n, k), d), e - k)

\* the Number nearest to (-1)^s * (n / d) * 2^e
RoundRat(s, n, d, e) ==
  IF n = <<>> THEN Zero(s)
  ELSE RoundScaled(s, n, d, e, IF 56 + BBitLen(d) - BBitLen(n) > 0
                               THEN 56 + BBitLen(d) - BBitLen(n) ELSE 0)

\* a numeric literal of the source: the decimal n / 10^scale
FromDec(n, scale) == RoundRat(0, BFromInt(n), BPow10(scale), 0)

FromInt(n) == Round(IF n < 0 THEN 1 ELSE 0, BFromInt(IF n < 0 THEN -n ELSE n), FALSE, 0)

\* n * 2^-1074 for 0 < n < 2^15: the smallest positive Numbers
Subnormal(n) == Pack(0, <<n>>, -1074)

FNeg(a) == IF a.k = "nan" THEN a ELSE [a EXCEPT !.s = 1 - a.s]

IsZero(a) == a.k = "fin" /\ a.m = <<>>

\* the magnitudes of two finite Numbers compared: -1, 0 or 1
MagCmp(a, b) ==
  IF a.m = <<>> THEN (IF b.m = <<>> THEN 0 ELSE -1)
  ELSE IF b.m = <<>> THEN 1
  ELSE IF a.e < b.e THEN -1
  ELSE IF a.e > b.e THEN 1
  ELSE BCmp(a.m, b.m)

\* a and b compared, neither NaN: -1, 0 or 1
FCmp(a, b) ==
  IF IsZero(a) /\ IsZero(b) THEN 0
  ELSE IF a.s # b.s THEN (IF a.s = 1 THEN -1 ELSE 1)
  ELSE LET c == IF a.k = "inf" THEN (IF b.k = "inf" THEN 0 ELSE 1)
                ELSE IF b.k = "inf" THEN -1
                ELSE MagCmp(a, b)
       IN  IF a.s = 1 THEN -c ELSE c

\* the operators <, <=, >, === of the language: false when an operand is NaN
FLt(a, b) == a.k # "nan" /\ b.k # "nan" /\ FCmp(a, b) < 0

FLe(a, b) == a.k # "nan" /\ b.k # "nan" /\ FCmp(a, b) <= 0

FGt(a, b) == FLt(b, a)

FEq(a, b) == a.k # "nan" /\ b.k # "nan" /\ FCmp(a, b) = 0

\* hi + lo for nonzero finite Numbers with lo below 2^-11 of hi's last place:
\* lo only decides which way the sum is rounded
AddTiny(hi, lo) ==
  Round(hi.s, IF hi.s = lo.s THEN BShl(hi.m, 2) ELSE BSub(BShl(hi.m, 2), <<1>>),
        TRUE, hi.e - 2)

\* (-1)^sa * x * 2^e + (-1)^sb * y * 2^e, c comparing x with y
AddCompared(sa, x, sb, y, e, c) ==
  IF sa = sb THEN Round(sa, BAdd(x, y), FALSE, e)
  ELSE Round(IF c = 0 THEN 0 ELSE IF c > 0 THEN sa ELSE sb,
             IF c > 0 THEN BSub(x, y) ELSE BSub(y, x), FALSE, e)

AddAligned(sa, x, sb, y, e) == AddCompared(sa, x, sb, y, e, BCmp(x, y))

\* a + b
FAdd(a, b) ==
  IF a.k = "nan" \/ b.k = "nan" THEN NaN
  ELSE IF a.k = "inf" THEN (IF b.k = "inf" /\ b.s # a.s THEN NaN ELSE a)
  ELSE IF b.k = "inf" THEN b
  ELSE IF a.m = <<>> THEN (IF b.m = <<>> THEN Zero(IF a.s = 1 /\ b.s = 1 THEN 1 ELSE 0) ELSE b)
  ELSE IF b.m = <<>> THEN a
  ELSE IF a.e - b.e > 64 \/ b.e - a.e > 64
       THEN AddTiny(IF a.e > b.e THEN a ELSE b, IF a.e > b.e THEN b ELSE a)
  ELSE AddAligned(a.s, BShl(a.m, a.e - (IF a.e < b.e THEN a.e ELSE b.e)),
                  b.s, BShl(b.m, b.e - (IF a.e < b.e THEN a.e ELSE b.e)),
                  IF a.e < b.e THEN a.e ELSE b.e)

\* a - b
FSub(a, b) == FAdd(a, FNeg(b))

\* a * b
FMul(a, b) ==
  LET s == IF a.s = b.s THEN 0 ELSE 1
  IN  IF a.k = "nan" \/ b.k = "nan" THEN NaN
      ELSE IF a.k = "inf" \/ b.k = "inf"
           THEN (IF IsZero(a) \/ IsZero(b) THEN NaN ELSE Infinity(s))
      ELSE Round(s, BMul(a.m, b.m), FALSE, a.e + b.e)

\* a / b
FDiv(a, b) ==
  LET s == IF a.s = b.s THEN 0 ELSE 1
  IN  IF a.k = "nan" \/ b.k = "nan" THEN NaN
      ELSE IF a.k = "inf" THEN (IF b.k = "inf" THEN NaN ELSE Infinity(s))
      ELSE IF b.k = "inf" THEN Zero(s)
      ELSE IF b.m = <<>> THEN (IF a.m = <<>> THEN NaN ELSE Infinity(s))
      ELSE RoundRat(s, a.m, b.m, a.e - b.e)

\* Math.max(a, b): NaN if an operand is NaN, and +0 is larger than -0
FMax(a, b) ==
  IF a.k = "nan" \/ b.k = "nan" THEN NaN
  ELSE IF FCmp(a, b) > 0 THEN a
  ELSE IF FCmp(a, b) < 0 THEN b
  ELSE IF a.s = 0 THEN a ELSE b

\* whether the magnitude of the finite Number a is at least 10^21
AtLeast1e21(a) ==
  a.m # <<>> /\ a.e >= 0 /\ (a.e >= 18 \/ BCmp(BShl(a.m, a.e), BPow10(21)) >= 0)

\* the integer n with n / 10^f nearest to the magnitude of the finite Number a,
\* the larger n of two (Number.prototype.toFixed)
FixedDigits(a, f) ==
  LET num == BMulSmall(a.m, 10^f)
  IN  IF a.e >= 0 THEN BShl(num, a.e)
      ELSE IF -a.e > BBitLen(num) + 1 THEN <<>>
      ELSE LET q  == BShr(num, -a.e)
               rm == BSub(num, BShl(q, -a.e))
           IN  IF BCmp(rm, BShl(<<1>>, (-a.e) - 1)) >= 0 THEN BAdd(q, <<1>>) ELSE q

\* Number(a.toFixed(f)) for 0 <= f <= 4
NumFixed(a, f) ==
  IF a.k # "fin" \/ AtLeast1e21(a) THEN a
  ELSE RoundRat(IF a.m = <<>> THEN 0 ELSE a.s, FixedDigits(a, f), BPow10(f), 0)

----------------------------------------------------------------------------
(* Math.pow(10, y) and Math.exp(y).  The language leaves their results       *)
(* implementation-approximated; the model takes the Number nearest to the    *)
(* value computed in fixed point with 75 fractional binary digits (five      *)
(* digits of Radix).                                                         *)

\* 2^75 as a fixed-point one
FixOne == BShiftDigits(<<1>>, 5)

\* a * b for fixed-point a and b
FixMul(a, b) ==
  LET p == BMul(a, b) IN IF Len(p) <= 5 THEN <<>> ELSE SubSeq(p, 6, Len(p))

RECURSIVE AtanhFrom(_, _, _, _)
\* sum plus the terms (1/q)^(2j+1) / (2j+1) of atanh(1/q) from j on, p = q^(2j+1)
AtanhFrom(q, j, p, sum) ==
  IF BBitLen(p) > 75 THEN sum
  ELSE CHOOSE r \in {AtanhFrom(q, j + 1, p1, sum1) :
                       p1   \in {BMulSmall(p, q * q)},
                       sum1 \in {BAdd(sum, BDivExact(FixOne, BMulSmall(p, 2 * j + 1))[1])}} : TRUE

\* ln 2 = 2 atanh(1/3)
Ln2 == BMulSmall(AtanhFrom(3, 0, <<3>>, <<>>), 2)

\* ln 10 = 3 ln 2 + ln(5/4) and ln(5/4) = 2 atanh(1/9)
Ln10 == BAdd(BMulSmall(Ln2, 3), BMulSmall(AtanhFrom(9, 0, <<9>>, <<>>), 2))

\* log2(10)
Log2Of10 == BDivExact(BShiftDigits(Ln10, 5), Ln2)[1]

RECURSIVE ExpFrom(_, _, _, _)
\* sum plus the terms z^n / n! of exp(z) from n - 1 on, term = z^(n-1) / (n-1)!
ExpFrom(z, n, term, sum) ==
  IF term = <<>> THEN sum
  ELSE CHOOSE r \in {ExpFrom(z, n + 1, term1, sum1) :
                       term1 \in {BDivSmall(FixMul(term, z), n)},
                       sum1  \in {BAdd(sum, term)}} : TRUE

\* 2^f for a fixed-point fraction 0 <= f < 1
Pow2Frac(f) == CHOOSE r \in {ExpFrom(z, 1, FixOne, <<>>) : z \in {FixMul(f, Ln2)}} : TRUE

\* 2^t for the fixed-point magnitude t and the sign s of the exponent
Pow2(s, t) ==
  LET i == BToInt(IF Len(t) <= 5 THEN <<>> ELSE SubSeq(t, 6, Len(t)))
      f == BNorm(SubSeq(t, 1, IF Len(t) < 5 THEN Len(t) ELSE 5))
  IN  IF s = 0 THEN Round(0, Pow2Frac(f), TRUE, i - 75)
      ELSE IF f = <<>> THEN Round(0, FixOne, FALSE, (-i) - 75)
      ELSE Round(0, Pow2Frac(BSub(FixOne, f)), TRUE, (-i) - 76)

\* Math.pow(10, y)
Pow10(y) ==
  IF y.k = "nan" THEN NaN
  ELSE IF y.k = "inf" THEN (IF y.s = 0 THEN Infinity(0) ELSE Zero(0))
  ELSE IF y.m = <<>> \/ y.e < -140 THEN FromInt(1)
  ELSE IF MagCmp(y, FromInt(400)) >= 0 THEN (IF y.s = 0 THEN Infinity(0) ELSE Zero(0))
  ELSE LET p == BMul(y.m, Log2Of10)
       IN  Pow2(y.s, IF y.e >= 0 THEN BShl(p, y.e) ELSE BShr(p, -y.e))

\* log2(e) = 1 / ln 2
Log2E == BDivExact(BShiftDigits(FixOne, 5), Ln2)[1]

\* Math.exp(y)
FExp(y) ==
  IF y.k = "nan" THEN NaN
  ELSE IF y.k = "inf" THEN (IF y.s = 0 THEN Infinity(0) ELSE Zero(0))
  ELSE IF y.m = <<>> \/ y.e < -140 THEN FromInt(1)
  ELSE IF MagCmp(y, FromInt(1000)) >= 0 THEN (IF y.s = 0 THEN Infinity(0) ELSE Zero(0))
  ELSE LET p == BMul(y.m, Log2E)
       IN  Pow2(y.s, IF y.e >= 0 THEN BShl(p, y.e) ELSE BShr(p, -y.e))

----------------------------------------------------------------------------
(* The calls.                                                              *)

VARIABLES
  gen,    \* the generator called
  arg,    \* its arguments
  pc,     \* "call": invoked; "loop": at the loop test; "done": returned;
          \* "threw": ended by an exception
  loc,    \* its local variables
  data,   \* the series built so far
  iters,  \* the loop iterations executed so far
  parked, \* the other calls in progress, each with its own gen .. iters
  solo,   \* the calls that ran with no other call in progress, each with the
          \* series it returned
  sessions,          \* App: the chat sessions, in the order of the list
  currentSessionId,  \* App: the id of the session shown
  isSidebarOpen,     \* App: whether the tools panel, which lists the sessions, is open
  uuids,             \* the number of ids crypto.randomUUID() has returned
  op                 \* the handler that ran last, with its argument and the answer
                     \* of window.confirm

\* the state of the calls of the exported functions
calc == <<gen, arg, pc, loc, data, iters, parked, solo>>

\* the session state of the App component
app == <<sessions, currentSessionId, isSidebarOpen, uuids, op>>

vars == <<gen, arg, pc, loc, data, iters, parked, solo,
          sessions, currentSessionId, isSidebarOpen, uuids, op>>

\* The loops are followed for at most MaxIter iterations.
MaxIter == 64

\* crypto.randomUUID() is called at most MaxUuid times.
MaxUuid == 4

\* yOp of a point past the operating line
Null == [k |-> "null", s |-> 0, m |-> <<>>, e |-> 0]

Water == [name |-> "Water", A |-> FromDec(807131, 5), B |-> FromDec(173063, 2),
          C |-> FromDec(233426, 3)]

Benzene == [name |-> "Benzene", A |-> FromDec(690565, 5), B |-> FromDec(1211033, 3),
            C |-> FromDec(220790, 3)]

\* the arguments the calls are made with
\* a session as createNewChat and the default of useState build it; createdAt
\* and lastModified (Date.now()) are left out
NewSession(id) == [id |-> id, title |-> "New Chat", messages |-> <<"welcome">>]

\* App as mounted with nothing saved: the default single session, shown
AppInit ==
  /\ sessions = <<NewSession(1)>>
  /\ currentSessionId = 1
  /\ isSidebarOpen = FALSE
  /\ uuids = 1
  /\ op = [name |-> "mount", id |-> 1, confirmed |-> FALSE]

RayleighArgs ==
  [alpha     : {FromDec(1001, 3), FromInt(3), FromInt(8), FromInt(1),
                FAdd(FromInt(1), FDiv(FromInt(1), FMul(FromInt(67108864), FromInt(67108864))))},
   initialF  : {FromInt(100), FromDec(125, 1), Subnormal(1), Subnormal(2022), FromInt(0),
                FromInt(-100)},
   initialXf : {FromDec(5, 1), FromDec(4996, 4), FromDec(1, 1)}]

McCabeArgs ==
  [alpha : {FromDec(25, 1)},
   R     : {FromInt(2), FromInt(-1)},
   xD    : {FromDec(95, 2), FromDec(96, 2), FromDec(5, 1)}]

AntoineArgs ==
  [params : {Water, Benzene},
   minT   : {FromInt(0), FromInt(20), FNeg(FromDec(233426, 3))},
   maxT   : {FromInt(10), FromInt(20), FromInt(100), FromInt(120)}]

HeatingArgs ==
  [t0          : {FromInt(20), FromDec(20675, 3)},
   tMax        : {FromInt(100), FromInt(2)},
   k           : {FromDec(1, 1), FromInt(0), FNeg(FromDec(5, 2))},
   timeMinutes : {FromInt(0), FromInt(3), FromInt(60)}]

ConductivityArgs ==
  [initial     : {FromInt(150), FromDec(20675, 3)},
   final       : {FromInt(2), FromInt(100)},
   k           : {FromDec(15, 2), FromInt(0), FNeg(FromDec(5, 2))},
   timeMinutes : {FromInt(0), FromInt(3), FromInt(60)}]

FlowArgs ==
  [powerWatts  : {FromInt(2000), FromInt(500)},
   efficiency  : {FromDec(85, 2), FromDec(5, 1)},
   timeMinutes : {FromInt(0), FromInt(3), FromInt(60)}]

PowerArgs ==
  [powerWatts  : {FromInt(2000), FromInt(1500)},
   costPerKwh  : {FromDec(15, 2), FromDec(12, 2)},
   timeMinutes : {FromInt(0), FromInt(3), FromInt(60)}]

EquilibriumArgs ==
  [x     : {FromInt(0), FromDec(2, 2), FromDec(3, 1), FromDec(5, 1), FromDec(98, 2),
            FromInt(1)},
   alpha : {FromInt(1), FromDec(1, 1), FromDec(7, 1), FromDec(11, 1), FromDec(25, 1),
            FromInt(3), FromInt(8), FromDec(1, 17)}]

VaporPressureArgs ==
  [tempC  : {FNeg(FromDec(233426, 3)), FNeg(FromDec(220790, 3)), FromInt(0),
             FromInt(25), FromInt(100)},
   params : {Water, Benzene}]

Init ==
  /\ \/ gen = "rayleigh" /\ arg \in RayleighArgs
     \/ gen = "mccabe" /\ arg \in McCabeArgs
     \/ gen = "antoine" /\ arg \in AntoineArgs
     \/ gen = "heating" /\ arg \in HeatingArgs
     \/ gen = "conductivity" /\ arg \in ConductivityArgs
     \/ gen = "flow" /\ arg \in FlowArgs
     \/ gen = "power" /\ arg \in PowerArgs
     \/ gen = "equilibriumY" /\ arg \in EquilibriumArgs
     \/ gen = "vaporPressure" /\ arg \in VaporPressureArgs
  /\ pc = "call"
  /\ loc = [none |-> 0]
  /\ data = <<>>
  /\ iters = 0
  /\ parked = <<>>
  /\ solo = {}
  /\ AppInit

----------------------------------------------------------------------------
(* calculateEquilibriumY and generateRayleighData                          *)

\* the denominator taken as 1 + alpha * x
calculateEquilibriumYDenominator(x, alpha) ==
  FDiv(FMul(alpha, x), FAdd(FromInt(1), FMul(alpha, x)))

calculateEquilibriumY(x, alpha) ==
  FDiv(FMul(alpha, x), FAdd(FromInt(1), FMul(FSub(alpha, FromInt(1)), x)))

\* the loop body without the clamp: x_new committed as it is
ClampMissing(x_new) == x_new

\* the clamped value committed as it is emitted, rounded to 3 decimals
ClampRounded(x_new) == NumFixed(FMax(Zero(0), x_new), 3)

\* a clamp to a small positive floor instead of 0
ClampFloor(x_new) == FMax(FromDec(1, 3), x_new)

\* x = Math.max(0, x_new)
Clamp(x_new) == FMax(Zero(0), x_new)

\* the loop run until everything is distilled
RayleighTestNoCutoff == FLt(loc.distilled, arg.initialF)

\* the loop test: distilled < initialF * 0.95
RayleighTest == FLt(loc.distilled, FMul(arg.initialF, FromDec(95, 2)))

\* the body before the loop: W, x, step, the initial point, distilled = step.
\* loc also keeps the y and x_new of the last iteration and two histories of
\* the call: sumY, the sum of the y of its iterations, and clamped, whether an
\* x_new was negative.
RayleighEnter ==
  /\ gen = "rayleigh" /\ pc = "call"
  /\ LET step == FDiv(arg.initialF, FromInt(50))
     IN  /\ loc' = [W |-> arg.initialF, x |-> arg.initialXf, step |-> step,
                    distilled |-> step, y |-> NaN, x_new |-> NaN,
                    sumY |-> FromInt(0), clamped |-> FALSE]
         /\ data' = <<[percentDistilled      |-> FromInt(0),
                       residueComposition    |-> arg.initialXf,
                       distillateComposition |->
                         calculateEquilibriumY(arg.initialXf, arg.alpha)]>>
  /\ pc' = "loop"
  /\ UNCHANGED <<gen, arg, iters, parked, solo>>
  /\ UNCHANGED app

\* the light component left divided by the mass before the step
NewCompositionOldMass(x, W, y, step, W_new) ==
  FDiv(FSub(FMul(x, W), FMul(y, step)), W)

\* x_new = (x * W - y * step) / W_new
NewComposition(x, W, y, step, W_new) ==
  FDiv(FSub(FMul(x, W), FMul(y, step)), W_new)

\* one iteration of the loop
RayleighStep ==
  /\ gen = "rayleigh" /\ pc = "loop" /\ iters < MaxIter
  /\ RayleighTest
  /\ \E y \in {calculateEquilibriumY(loc.x, arg.alpha)} :
     \E W_new \in {FSub(loc.W, loc.step)} :
     \E x_new \in {NewComposition(loc.x, loc.W, y, loc.step, W_new)} :
     \E x \in {Clamp(x_new)} :
     \E percentDistilled \in {FMul(FDiv(loc.distilled, arg.initialF), FromInt(100))} :
       /\ data' = Append(data,
                    [percentDistilled      |-> NumFixed(percentDistilled, 1),
                     residueComposition    |-> NumFixed(x, 3),
                     distillateComposition |-> NumFixed(y, 3)])
       /\ loc' = [W |-> W_new, x |-> x, step |-> loc.step,
                  distilled |-> FAdd(loc.distilled, loc.step),
                  y |-> y, x_new |-> x_new,
                  sumY |-> FAdd(loc.sumY, y),
                  clamped |-> (loc.clamped \/ FLt(x_new, FromInt(0)))]
  /\ iters' = iters + 1
  /\ UNCHANGED <<gen, arg, pc, parked, solo>>
  /\ UNCHANGED app

RayleighReturn ==
  /\ gen = "rayleigh" /\ pc = "loop"
  /\ ~RayleighTest
  /\ pc' = "done"
  /\ UNCHANGED <<gen, arg, loc, data, iters, parked, solo>>
  /\ UNCHANGED app

----------------------------------------------------------------------------
(* generateMcCabeThieleData                                                *)

\* the loop test: x <= 1.0
McCabeTest == FLe(loc.x, FromInt(1))

\* the rectifying line (R / (R + 1)) * x + (xD / (R + 1))
OperatingLine(x, R, xD) ==
  FAdd(FMul(FDiv(R, FAdd(R, FromInt(1))), x), FDiv(xD, FAdd(R, FromInt(1))))

McCabeEnter ==
  /\ gen = "mccabe" /\ pc = "call"
  /\ loc' = [x |-> FromInt(0)]
  /\ pc' = "loop"
  /\ UNCHANGED <<gen, arg, data, iters, parked, solo>>
  /\ UNCHANGED app

McCabeStep ==
  /\ gen = "mccabe" /\ pc = "loop" /\ iters < MaxIter
  /\ McCabeTest
  /\ \E yEq \in {calculateEquilibriumY(loc.x, arg.alpha)} :
     \E yOp \in {IF FLe(loc.x, arg.xD) THEN OperatingLine(loc.x, arg.R, arg.xD)
                                      ELSE Null} :
       data' = Append(data,
                 [x     |-> NumFixed(loc.x, 2),
                  yEq   |-> NumFixed(yEq, 3),
                  yOp   |-> IF yOp # Null THEN NumFixed(yOp, 3) ELSE Null,
                  xLine |-> NumFixed(loc.x, 2)])
  /\ loc' = [x |-> FAdd(loc.x, FromDec(2, 2))]
  /\ iters' = iters + 1
  /\ UNCHANGED <<gen, arg, pc, parked, solo>>
  /\ UNCHANGED app

McCabeReturn ==
  /\ gen = "mccabe" /\ pc = "loop"
  /\ ~McCabeTest
  /\ pc' = "done"
  /\ UNCHANGED <<gen, arg, loc, data, iters, parked, solo>>
  /\ UNCHANGED app

----------------------------------------------------------------------------
(* generateAntoineData                                                     *)

\* the loop test: t <= maxT
\* log10(P) = A - B / (T + C), P in mmHg
calculateVaporPressure(tempC, params) ==
  CHOOSE p \in {Pow10(logP) :
                  logP \in {FSub(params.A, FDiv(params.B, FAdd(tempC, params.C)))}} : TRUE

AntoineTest == FLe(loc.t, arg.maxT)

AntoineEnter ==
  /\ gen = "antoine" /\ pc = "call"
  /\ loc' = [step |-> FDiv(FSub(arg.maxT, arg.minT), FromInt(50)), t |-> arg.minT]
  /\ pc' = "loop"
  /\ UNCHANGED <<gen, arg, data, iters, parked, solo>>
  /\ UNCHANGED app

AntoineStep ==
  /\ gen = "antoine" /\ pc = "loop" /\ iters < MaxIter
  /\ AntoineTest
  /\ \E pressure \in {calculateVaporPressure(loc.t, arg.params)} :
       data' = Append(data, [temperature |-> NumFixed(loc.t, 1),
                             pressure |-> NumFixed(pressure, 2)])
  /\ loc' = [loc EXCEPT !.t = FAdd(loc.t, loc.step)]
  /\ iters' = iters + 1
  /\ UNCHANGED <<gen, arg, pc, parked, solo>>
  /\ UNCHANGED app

AntoineReturn ==
  /\ gen = "antoine" /\ pc = "loop"
  /\ ~AntoineTest
  /\ pc' = "done"
  /\ UNCHANGED <<gen, arg, loc, data, iters, parked, solo>>
  /\ UNCHANGED app

----------------------------------------------------------------------------
(* generateHeatingData and generateConductivityData                        *)

\* a loop that stops one minute early
MinutesTestExclusive == FLt(loc.t, arg.timeMinutes)

\* the loop test of the four generators over minutes: t <= timeMinutes
MinutesTest == FLe(loc.t, arg.timeMinutes)

\* T(t) = tMax - (tMax - t0) * Math.exp(-k * t)
HeatingValue(t0, tMax, k, t) ==
  CHOOSE temp \in {FSub(tMax, FMul(d, e)) :
                     d \in {FSub(tMax, t0)},
                     e \in {FExp(FMul(FNeg(k), t))}} : TRUE

HeatingEnter ==
  /\ gen = "heating" /\ pc = "call"
  /\ loc' = [t |-> FromInt(0)]
  /\ pc' = "loop"
  /\ UNCHANGED <<gen, arg, data, iters, parked, solo>>
  /\ UNCHANGED app

HeatingStep ==
  /\ gen = "heating" /\ pc = "loop" /\ iters < MaxIter
  /\ MinutesTest
  /\ \E temp \in {HeatingValue(arg.t0, arg.tMax, arg.k, loc.t)} :
       data' = Append(data, [time |-> loc.t, temperature |-> NumFixed(temp, 2)])
  /\ loc' = [t |-> FAdd(loc.t, FromInt(1))]
  /\ iters' = iters + 1
  /\ UNCHANGED <<gen, arg, pc, parked, solo>>
  /\ UNCHANGED app

HeatingReturn ==
  /\ gen = "heating" /\ pc = "loop"
  /\ ~MinutesTest
  /\ pc' = "done"
  /\ UNCHANGED <<gen, arg, loc, data, iters, parked, solo>>
  /\ UNCHANGED app

\* the value as the mean initial * e + final * (1 - e), e = Math.exp(-k * t)
ConductivityValueWeighted(initial, final, k, t) ==
  CHOOSE val \in {FAdd(FMul(initial, e), FMul(final, FSub(FromInt(1), e))) :
                    e \in {FExp(FMul(FNeg(k), t))}} : TRUE

\* C(t) = final + (initial - final) * Math.exp(-k * t)
ConductivityValue(initial, final, k, t) ==
  CHOOSE val \in {FAdd(final, FMul(d, e)) :
                    d \in {FSub(initial, final)},
                    e \in {FExp(FMul(FNeg(k), t))}} : TRUE

ConductivityEnter ==
  /\ gen = "conductivity" /\ pc = "call"
  /\ loc' = [t |-> FromInt(0)]
  /\ pc' = "loop"
  /\ UNCHANGED <<gen, arg, data, iters, parked, solo>>
  /\ UNCHANGED app

ConductivityStep ==
  /\ gen = "conductivity" /\ pc = "loop" /\ iters < MaxIter
  /\ MinutesTest
  /\ \E val \in {ConductivityValue(arg.initial, arg.final, arg.k, loc.t)} :
       data' = Append(data, [time |-> loc.t, conductivity |-> NumFixed(val, 2)])
  /\ loc' = [t |-> FAdd(loc.t, FromInt(1))]
  /\ iters' = iters + 1
  /\ UNCHANGED <<gen, arg, pc, parked, solo>>
  /\ UNCHANGED app

ConductivityReturn ==
  /\ gen = "conductivity" /\ pc = "loop"
  /\ ~MinutesTest
  /\ pc' = "done"
  /\ UNCHANGED <<gen, arg, loc, data, iters, parked, solo>>
  /\ UNCHANGED app

----------------------------------------------------------------------------
(* generateFlowData                                                        *)

\* t === 0 ? 0 : mLPerMinute * (1 - Math.exp(-0.5 * t))
CurrentFlow(mLPerMinute, t) ==
  IF FEq(t, FromInt(0)) THEN FromInt(0)
  ELSE CHOOSE f \in {FMul(mLPerMinute, w) :
                       w \in {FSub(FromInt(1), FExp(FMul(FNeg(FromDec(5, 1)), t)))}} : TRUE

\* the volume integrated from the flow of the minute before (a left sum)
IntegrateLeft(totalVol, currentFlow, t) ==
  IF FGt(t, FromInt(0))
  THEN FAdd(totalVol, CurrentFlow(loc.mLPerMinute, FSub(t, FromInt(1))))
  ELSE totalVol

\* if (t > 0) totalVol += currentFlow
Integrate(totalVol, currentFlow, t) ==
  IF FGt(t, FromInt(0)) THEN FAdd(totalVol, currentFlow) ELSE totalVol

\* joulesPerGram, gramsPerSecond, mLPerMinute, data, totalVol and t = 0
FlowEnter ==
  /\ gen = "flow" /\ pc = "call"
  /\ \E gramsPerSecond \in {FDiv(FMul(arg.powerWatts, arg.efficiency), FromInt(2594))} :
       loc' = [gramsPerSecond |-> gramsPerSecond,
               mLPerMinute    |-> FMul(gramsPerSecond, FromInt(60)),
               totalVol       |-> FromInt(0),
               t              |-> FromInt(0)]
  /\ pc' = "loop"
  /\ UNCHANGED <<gen, arg, data, iters, parked, solo>>
  /\ UNCHANGED app

FlowStep ==
  /\ gen = "flow" /\ pc = "loop" /\ iters < MaxIter
  /\ MinutesTest
  /\ \E currentFlow \in {CurrentFlow(loc.mLPerMinute, loc.t)} :
     \E totalVol \in {Integrate(loc.totalVol, currentFlow, loc.t)} :
       /\ data' = Append(data,
                    [time        |-> loc.t,
                     flowRate    |-> NumFixed(currentFlow, 1),
                     totalVolume |-> NumFixed(FDiv(totalVol, FromInt(1000)), 2)])
       /\ loc' = [loc EXCEPT !.totalVol = totalVol, !.t = FAdd(loc.t, FromInt(1))]
  /\ iters' = iters + 1
  /\ UNCHANGED <<gen, arg, pc, parked, solo>>
  /\ UNCHANGED app

FlowReturn ==
  /\ gen = "flow" /\ pc = "loop"
  /\ ~MinutesTest
  /\ pc' = "done"
  /\ UNCHANGED <<gen, arg, loc, data, iters, parked, solo>>
  /\ UNCHANGED app

----------------------------------------------------------------------------
(* generatePowerData                                                       *)

\* kWh = (powerWatts * (t / 60)) / 1000
EnergyKWh(powerWatts, t) ==
  FDiv(FMul(powerWatts, FDiv(t, FromInt(60))), FromInt(1000))

\* the cost of the energy kWh taken from its rounded, emitted value
PowerCostOfEmitted(kWh, costPerKwh) == FMul(NumFixed(kWh, 3), costPerKwh)

\* cost = kWh * costPerKwh
PowerCost(kWh, costPerKwh) == FMul(kWh, costPerKwh)

PowerEnter ==
  /\ gen = "power" /\ pc = "call"
  /\ loc' = [t |-> FromInt(0)]
  /\ pc' = "loop"
  /\ UNCHANGED <<gen, arg, data, iters, parked, solo>>
  /\ UNCHANGED app

PowerStep ==
  /\ gen = "power" /\ pc = "loop" /\ iters < MaxIter
  /\ MinutesTest
  /\ \E kWh \in {EnergyKWh(arg.powerWatts, loc.t)} :
     \E cost \in {PowerCost(kWh, arg.costPerKwh)} :
       data' = Append(data, [time   |-> loc.t,
                             energy |-> NumFixed(kWh, 3),
                             cost   |-> NumFixed(cost, 2)])
  /\ loc' = [t |-> FAdd(loc.t, FromInt(1))]
  /\ iters' = iters + 1
  /\ UNCHANGED <<gen, arg, pc, parked, solo>>
  /\ UNCHANGED app

PowerReturn ==
  /\ gen = "power" /\ pc = "loop"
  /\ ~MinutesTest
  /\ pc' = "done"
  /\ UNCHANGED <<gen, arg, loc, data, iters, parked, solo>>
  /\ UNCHANGED app

----------------------------------------------------------------------------
(* Direct calls of the exported functions calculateEquilibriumY and        *)
(* calculateVaporPressure: one step from the call to the returned Number.  *)

EquilibriumCall ==
  /\ gen = "equilibriumY" /\ pc = "call"
  /\ loc' = [returned |-> calculateEquilibriumY(arg.x, arg.alpha)]
  /\ pc' = "done"
  /\ UNCHANGED <<gen, arg, data, iters, parked, solo>>
  /\ UNCHANGED app

VaporPressureCall ==
  /\ gen = "vaporPressure" /\ pc = "call"
  /\ loc' = [returned |-> calculateVaporPressure(arg.tempC, arg.params)]
  /\ pc' = "done"
  /\ UNCHANGED <<gen, arg, data, iters, parked, solo>>
  /\ UNCHANGED app

----------------------------------------------------------------------------

Next ==
  \/ RayleighEnter \/ RayleighStep \/ RayleighReturn
  \/ McCabeEnter \/ McCabeStep \/ McCabeReturn
  \/ AntoineEnter \/ AntoineStep \/ AntoineReturn
  \/ HeatingEnter \/ HeatingStep \/ HeatingReturn
  \/ ConductivityEnter \/ ConductivityStep \/ ConductivityReturn
  \/ FlowEnter \/ FlowStep \/ FlowReturn
  \/ PowerEnter \/ PowerStep \/ PowerReturn
  \/ EquilibriumCall \/ VaporPressureCall

Spec == Init /\ [][Next]_vars

----------------------------------------------------------------------------
(* Repeated and concurrent calls of generateRayleighData and               *)
(* generateFlowData: first calls run one after the other, each alone, and  *)
(* what each returns is recorded in solo; then two calls are in progress   *)
(* at once and their loop steps interleave in every order.                 *)

\* the calls made
Calls ==
  {[gen |-> "rayleigh",
    arg |-> [alpha |-> FromInt(3), initialF |-> FromInt(100), initialXf |-> FromDec(5, 1)]],
   [gen |-> "rayleigh",
    arg |-> [alpha |-> FromInt(8), initialF |-> FromInt(100), initialXf |-> FromDec(1, 1)]],
   [gen |-> "flow",
    arg |-> [powerWatts |-> FromInt(2000), efficiency |-> FromDec(85, 2),
             timeMinutes |-> FromInt(3)]]}

\* the locals of a call carried over from the call in progress
ActivationKeepingData(c) ==
  [gen |-> c.gen, arg |-> c.arg, pc |-> "call", loc |-> [none |-> 0],
   data |-> data, iters |-> 0]

\* a new call: its locals are created by the call itself
Activation(c) ==
  [gen |-> c.gen, arg |-> c.arg, pc |-> "call", loc |-> [none |-> 0],
   data |-> <<>>, iters |-> 0]

\* the call that is running
Frame ==
  [gen |-> gen, arg |-> arg, pc |-> pc, loc |-> loc, data |-> data, iters |-> iters]

\* the call in progress c entered with the series of the running call
ResumedOnSharedData(c) == [c EXCEPT !.data = data]

\* the call in progress c entered again: it finds its own locals
Resumed(c) == c

\* the calls recorded in solo
SoloCalls == {[gen |-> s.gen, arg |-> s.arg] : s \in solo}

InitCalls ==
  /\ \E c \in Calls : gen = c.gen /\ arg = c.arg
  /\ pc = "call"
  /\ loc = [none |-> 0]
  /\ data = <<>>
  /\ iters = 0
  /\ parked = <<>>
  /\ solo = {}
  /\ AppInit

\* the caller records what the call returned and makes the next call
Restart ==
  /\ pc = "done" /\ parked = <<>>
  /\ [gen |-> gen, arg |-> arg] \notin SoloCalls
  /\ solo' = solo \cup {[gen |-> gen, arg |-> arg, data |-> data]}
  /\ \E c \in Calls : \E f \in {Activation(c)} :
       /\ gen' = f.gen /\ arg' = f.arg /\ pc' = f.pc
       /\ loc' = f.loc /\ data' = f.data /\ iters' = f.iters
  /\ UNCHANGED parked
  /\ UNCHANGED app

\* a second caller makes a call while the call just made is in progress
Spawn ==
  /\ pc = "call" /\ parked = <<>>
  /\ SoloCalls = Calls
  /\ \E c \in Calls : parked' = <<Activation(c)>>
  /\ UNCHANGED <<gen, arg, pc, loc, data, iters, solo>>
  /\ UNCHANGED app

\* the running call is left where it is and the other call is entered
Switch ==
  /\ parked # <<>>
  /\ \E f \in {Resumed(parked[1])} :
       /\ gen' = f.gen /\ arg' = f.arg /\ pc' = f.pc
       /\ loc' = f.loc /\ data' = f.data /\ iters' = f.iters
  /\ parked' = <<Frame>>
  /\ UNCHANGED solo
  /\ UNCHANGED app

NextCalls ==
  \/ RayleighEnter \/ RayleighStep \/ RayleighReturn
  \/ FlowEnter \/ FlowStep \/ FlowReturn
  \/ Restart \/ Spawn \/ Switch

SpecCalls == InitCalls /\ [][NextCalls]_vars

----------------------------------------------------------------------------
(* generateHeatingData and generateConductivityData called with the same   *)
(* four arguments: the heating call runs first and what it returns is      *)
(* recorded in solo, then the conductivity call runs.                      *)

InitTwin ==
  /\ gen = "heating" /\ arg \in HeatingArgs
  /\ pc = "call"
  /\ loc = [none |-> 0]
  /\ data = <<>>
  /\ iters = 0
  /\ parked = <<>>
  /\ solo = {}
  /\ AppInit

\* the caller keeps the heating series and calls generateConductivityData with
\* the arguments of the heating call
Twin ==
  /\ gen = "heating" /\ pc = "done" /\ solo = {}
  /\ solo' = {[gen |-> gen, arg |-> arg, data |-> data]}
  /\ \E f \in {Activation([gen |-> "conductivity",
                           arg |-> [initial |-> arg.t0, final |-> arg.tMax,
                                    k |-> arg.k, timeMinutes |-> arg.timeMinutes]])} :
       /\ gen' = f.gen /\ arg' = f.arg /\ pc' = f.pc
       /\ loc' = f.loc /\ data' = f.data /\ iters' = f.iters
  /\ UNCHANGED parked
  /\ UNCHANGED app

NextTwin ==
  \/ HeatingEnter \/ HeatingStep \/ HeatingReturn
  \/ Twin
  \/ ConductivityEnter \/ ConductivityStep \/ ConductivityReturn

SpecTwin == InitTwin /\ [][NextTwin]_vars

----------------------------------------------------------------------------
(* A time-based generator called twice with the same arguments but the     *)
(* duration: the longer call runs first and what it returns is recorded in *)
(* solo, then the call with the shorter duration runs.                     *)

\* the durations of the second call, in whole minutes
Durations == {FromInt(0), FromInt(2), FromInt(60)}

InitPrefix ==
  /\ \/ gen = "heating" /\ arg \in HeatingArgs
     \/ gen = "conductivity" /\ arg \in ConductivityArgs
     \/ gen = "flow" /\ arg \in FlowArgs
     \/ gen = "power" /\ arg \in PowerArgs
  /\ pc = "call"
  /\ loc = [none |-> 0]
  /\ data = <<>>
  /\ iters = 0
  /\ parked = <<>>
  /\ solo = {}
  /\ AppInit

\* the caller keeps the returned series and calls the same generator with a
\* duration d not above the first one
Shorter ==
  /\ pc = "done" /\ solo = {}
  /\ solo' = {[gen |-> gen, arg |-> arg, data |-> data]}
  /\ \E d \in Durations :
       /\ FLe(d, arg.timeMinutes)
       /\ \E f \in {Activation([gen |-> gen, arg |-> [arg EXCEPT !.timeMinutes = d]])} :
            /\ gen' = f.gen /\ arg' = f.arg /\ pc' = f.pc
            /\ loc' = f.loc /\ data' = f.data /\ iters' = f.iters
  /\ UNCHANGED parked
  /\ UNCHANGED app

NextPrefix ==
  \/ HeatingEnter \/ HeatingStep \/ HeatingReturn
  \/ ConductivityEnter \/ ConductivityStep \/ ConductivityReturn
  \/ FlowEnter \/ FlowStep \/ FlowReturn
  \/ PowerEnter \/ PowerStep \/ PowerReturn
  \/ Shorter

SpecPrefix == InitPrefix /\ [][NextPrefix]_vars

----------------------------------------------------------------------------
(* App: the chat sessions. Every handler runs on the state of the last     *)
(* render; crypto.randomUUID() returns an id never returned before, the    *)
(* ids being numbered in the order they are returned.                      *)

\* no exported function of calculations.ts is being called
CalcIdle ==
  /\ gen = "none" /\ arg = <<>> /\ pc = "done" /\ loc = [none |-> 0]
  /\ data = <<>> /\ iters = 0 /\ parked = <<>> /\ solo = {}

InitApp == AppInit /\ CalcIdle

\* sessions.filter(s => s.id !== id)
FilterOut(list, id) == SelectSeq(list, LAMBDA s : s.id # id)

\* the body of createNewChat: a session with a new id is appended and shown,
\* the tools panel closed
NewChatAppended ==
  /\ uuids' = uuids + 1
  /\ sessions' = Append(sessions, NewSession(uuids + 1))
  /\ currentSessionId' = uuids + 1
  /\ isSidebarOpen' = FALSE

\* the Menu button
openSidebar ==
  /\ ~isSidebarOpen
  /\ isSidebarOpen' = TRUE
  /\ op' = [name |-> "openSidebar", id |-> 0, confirmed |-> FALSE]
  /\ UNCHANGED <<sessions, currentSessionId, uuids>>
  /\ UNCHANGED calc

\* onClose of the tools panel
closeSidebar ==
  /\ isSidebarOpen
  /\ isSidebarOpen' = FALSE
  /\ op' = [name |-> "closeSidebar", id |-> 0, confirmed |-> FALSE]
  /\ UNCHANGED <<sessions, currentSessionId, uuids>>
  /\ UNCHANGED calc

\* the New Chat button of the tools panel
createNewChat ==
  /\ isSidebarOpen /\ uuids < MaxUuid
  /\ NewChatAppended
  /\ op' = [name |-> "createNewChat", id |-> uuids + 1, confirmed |-> FALSE]
  /\ UNCHANGED calc

\* a row of the chat history clicked: onSwitchSession(session.id); onClose()
switchSession(id) ==
  /\ isSidebarOpen
  /\ currentSessionId' = id
  /\ isSidebarOpen' = FALSE
  /\ op' = [name |-> "switchSession", id |-> id, confirmed |-> FALSE]
  /\ UNCHANGED <<sessions, uuids>>
  /\ UNCHANGED calc

\* the session shown after the deletion of id left the sessions newSessions,
\* the session shown before kept whatever was deleted
CurrentKept(newSessions, id) == currentSessionId

\* if (currentSessionId === id) setCurrentSessionId(newSessions[newSessions.length - 1].id)
CurrentAfterDelete(newSessions, id) ==
  IF currentSessionId = id THEN newSessions[Len(newSessions)].id ELSE currentSessionId

\* the delete button of a row clicked and window.confirm answered
deleteSession(id, confirmed) ==
  /\ isSidebarOpen
  /\ op' = [name |-> "deleteSession", id |-> id, confirmed |-> confirmed]
  /\ IF confirmed
     THEN \E newSessions \in {FilterOut(sessions, id)} :
            IF Len(newSessions) = 0
            THEN uuids < MaxUuid /\ NewChatAppended
            ELSE /\ sessions' = newSessions
                 /\ currentSessionId' = CurrentAfterDelete(newSessions, id)
                 /\ UNCHANGED <<isSidebarOpen, uuids>>
     ELSE UNCHANGED <<sessions, currentSessionId, isSidebarOpen, uuids>>
  /\ UNCHANGED calc

NextApp ==
  \/ openSidebar
  \/ closeSidebar
  \/ createNewChat
  \/ \E i \in 1..Len(sessions) : switchSession(sessions[i].id)
  \/ \E i \in 1..Len(sessions) : \E confirmed \in BOOLEAN :
       deleteSession(sessions[i].id, confirmed)

SpecApp == InitApp /\ [][NextApp]_vars

----------------------------------------------------------------------------
(* The properties of generateRayleighData.                                 *)

\* the inputs the simulation is defined for:
\* alpha > 1, initialF > 0, 0 < initialXf < 1
RayleighValid ==
  /\ FGt(arg.alpha, FromInt(1))
  /\ FGt(arg.initialF, Zero(0))
  /\ FGt(arg.initialXf, Zero(0)) /\ FLt(arg.initialXf, FromInt(1))

\* C1: generateRayleighData terminates for every valid input.  The loop ends
\* only by distilled reaching 0.95 * initialF, and initialF and step never
\* change, so termination needs every iteration to increase distilled:
\* whenever the loop test holds, distilled + step > distilled.
C1_LoopAdvances ==
  (gen = "rayleigh" /\ RayleighValid /\ pc = "loop" /\ RayleighTest)
    => FLt(loc.distilled, FAdd(loc.distilled, loc.step))

\* C2: for valid inputs no emitted point has a residueComposition below 0:
\* a negative x_new is clamped to 0 before it is committed and emitted.
C2_ResidueNeverNegative ==
  (gen = "rayleigh" /\ RayleighValid)
    => /\ \A i \in 1..Len(data) : FLe(Zero(0), data[i].residueComposition)
       /\ pc = "loop" => FLe(Zero(0), loc.x)

\* an iteration with valid inputs whose x_new was negative and was emitted as 0
C2_ClampFired ==
  /\ gen = "rayleigh" /\ RayleighValid /\ pc = "loop" /\ iters > 0
  /\ FLt(loc.x_new, Zero(0))
  /\ loc.x = Zero(0)
  /\ data[Len(data)].residueComposition = Zero(0)

\* C3: for valid inputs the emitted residueComposition is non-increasing over
\* successive points, the initial point included.
C3_ResidueNonIncreasing ==
  (gen = "rayleigh" /\ RayleighValid)
    => \A i \in 2..Len(data) :
         FLe(data[i].residueComposition, data[i - 1].residueComposition)

\* C4: with initialF <= 0 or alpha <= 1 the call is rejected: it builds no
\* point, not even the initial one, and does not return.
C4_InvalidRejected ==
  (gen = "rayleigh" /\ (FLe(arg.initialF, Zero(0)) \/ FLe(arg.alpha, FromInt(1))))
    => data = <<>> /\ pc # "loop" /\ pc # "done"

\* C5: for valid inputs every emitted percentDistilled is below 95 and
\* percentDistilled strictly increases from 0 along the series.
C5_PercentBelowCutoff ==
  (gen = "rayleigh" /\ RayleighValid)
    => /\ \A i \in 1..Len(data) : FLt(data[i].percentDistilled, FromInt(95))
       /\ data # <<>> => data[1].percentDistilled = FromInt(0)
       /\ \A i \in 2..Len(data) :
            FLt(data[i - 1].percentDistilled, data[i].percentDistilled)

----------------------------------------------------------------------------
(* The bound on the iterations of a call.                                  *)

\* C6: whatever its arguments, a call executes at most 61 loop iterations.
C6_AtMost61Iterations == iters <= 61

----------------------------------------------------------------------------
(* The properties of generateAntoineData.                                  *)

\* C7: for minT < maxT the returned series has exactly 51 points, the first
\* at temperature minT and the last at temperature maxT.
C7_FiftyOnePoints ==
  (gen = "antoine" /\ pc = "done" /\ FLt(arg.minT, arg.maxT))
    => /\ Len(data) = 51
       /\ data[1].temperature = arg.minT
       /\ data[Len(data)].temperature = arg.maxT

\* C8: with minT >= maxT the call is rejected before computing anything: it
\* executes no iteration and returns no series.
C8_BoundsRejected ==
  (gen = "antoine" /\ FLe(arg.maxT, arg.minT)) => iters = 0 /\ pc # "done"

----------------------------------------------------------------------------
(* The properties of generateMcCabeThieleData.                             *)

\* C9: the returned series has exactly 51 points, with x = 0, 0.02, ..., 1.00
\* in this order and xLine = x in every point.
C9_FiftyOneXValues ==
  (gen = "mccabe" /\ pc = "done")
    => /\ Len(data) = 51
       /\ \A i \in 1..Len(data) :
            data[i].x = FromDec(2 * (i - 1), 2) /\ data[i].xLine = data[i].x

\* C10: in every emitted point yOp is null exactly when x > xD, and for
\* x <= xD it is (R / (R + 1)) * x + xD / (R + 1) rounded to 3 decimals.
C10_OperatingLineUpToXD ==
  gen = "mccabe"
    => \A i \in 1..Len(data) :
         /\ data[i].yOp = Null <=> FGt(data[i].x, arg.xD)
         /\ FLe(data[i].x, arg.xD)
              => data[i].yOp = NumFixed(OperatingLine(data[i].x, arg.R, arg.xD), 3)

\* C11: a call with R = -1 is rejected: it returns no series and no point
\* holds a NaN or infinite yOp.
C11_MinusOneRejected ==
  (gen = "mccabe" /\ arg.R = FromInt(-1))
    => /\ pc # "done"
       /\ \A i \in 1..Len(data) : data[i].yOp.k \notin {"nan", "inf"}

\* C12: a heating or conductivity call with a rate constant k <= 0 is rejected:
\* it emits no point and returns no series.
C12_RateRejected ==
  (gen \in {"heating", "conductivity"} /\ FLe(arg.k, FromInt(0)))
    => (pc # "done" /\ data = <<>>)

\* C13: a returned heating or conductivity series has timeMinutes + 1 points
\* with time 0, 1, ..., timeMinutes in order, and the value of its first point
\* is the initial value (t0, respectively initial) rounded to 2 decimals.
C13_FirstPointIsInitial ==
  /\ (gen = "heating" /\ pc = "done")
       => /\ FromInt(Len(data)) = FAdd(arg.timeMinutes, FromInt(1))
          /\ \A i \in 1..Len(data) : data[i].time = FromInt(i - 1)
          /\ data[1].temperature = NumFixed(arg.t0, 2)
  /\ (gen = "conductivity" /\ pc = "done")
       => /\ FromInt(Len(data)) = FAdd(arg.timeMinutes, FromInt(1))
          /\ \A i \in 1..Len(data) : data[i].time = FromInt(i - 1)
          /\ data[1].conductivity = NumFixed(arg.initial, 2)

\* C14 as stated: in every point emitted by generatePowerData the emitted
\* cost is the emitted energy multiplied by costPerKwh.
C14_CostIsEmittedEnergyTimesRate ==
  gen = "power"
    => \A i \in 1..Len(data) : data[i].cost = FMul(data[i].energy, arg.costPerKwh)

\* C14 amended: in every point emitted by generatePowerData the emitted energy
\* is powerWatts * (time / 60) / 1000 rounded to 3 decimals and the emitted
\* cost is that unrounded energy multiplied by costPerKwh, rounded to 2
\* decimals; both depend on the point's time alone.
C14_CostOfUnroundedEnergy ==
  gen = "power"
    => \A i \in 1..Len(data) :
         /\ data[i].energy
              = NumFixed(FDiv(FMul(arg.powerWatts, FDiv(data[i].time, FromInt(60))),
                              FromInt(1000)), 3)
         /\ data[i].cost
              = NumFixed(FMul(FDiv(FMul(arg.powerWatts, FDiv(data[i].time, FromInt(60))),
                                   FromInt(1000)), arg.costPerKwh), 2)

\* a returned power series with a point whose cost differs from its emitted
\* energy multiplied by costPerKwh
C14_RoundedPointReturned ==
  /\ gen = "power" /\ pc = "done"
  /\ \E i \in 1..Len(data) : data[i].cost # FMul(data[i].energy, arg.costPerKwh)

\* C15: calculateEquilibriumY(x, alpha) returns x when alpha = 1, and for every
\* alpha > 0 it returns 0 at x = 0 and 1 at x = 1.
C15_EquilibriumFixedPoints ==
  (gen = "equilibriumY" /\ pc = "done")
    => /\ arg.alpha = FromInt(1) => loc.returned = arg.x
       /\ (FGt(arg.alpha, FromInt(0)) /\ arg.x = FromInt(0))
            => loc.returned = FromInt(0)
       /\ (FGt(arg.alpha, FromInt(0)) /\ arg.x = FromInt(1))
            => loc.returned = FromInt(1)

\* C16: when tempC + C = 0 a call of calculateVaporPressure fails and returns
\* no value, and a call of generateAntoineData that starts at such a
\* temperature fails as well: it emits no point and returns no series.
C16_ZeroDenominatorFails ==
  /\ (gen = "vaporPressure" /\ IsZero(FAdd(arg.tempC, arg.params.C)))
       => pc # "done"
  /\ (gen = "antoine" /\ IsZero(FAdd(arg.minT, arg.params.C)))
       => (pc # "done" /\ data = <<>>)

C19_ScenarioStrictlyDecreasing ==
  (/\ gen = "rayleigh" /\ pc # "call"
   /\ arg = [alpha |-> FromInt(3), initialF |-> FromInt(100), initialXf |-> FromDec(5, 1)])
    => /\ data[1] = [percentDistilled      |-> FromInt(0),
                     residueComposition    |-> FromDec(5, 1),
                     distillateComposition |-> FromDec(75, 2)]
       /\ \A i \in 2..Len(data) :
            FLt(data[i].residueComposition, data[i - 1].residueComposition)

\* the call generateRayleighData(3, 100, 0.5) has returned its 48 points
C19_ScenarioReturned ==
  /\ gen = "rayleigh" /\ pc = "done"
  /\ arg = [alpha |-> FromInt(3), initialF |-> FromInt(100), initialXf |-> FromDec(5, 1)]
  /\ Len(data) = 48

\* C20: generateRayleighData starts with W = initialF, x = initialXf,
\* step = initialF / 50 and the point {0, x, equilibrium(x, alpha)}; each
\* iteration takes y = equilibrium(x, alpha) from the x before the step, commits
\* W - step and max(0, (x * W - y * step) / (W - step)) unrounded, and emits the
\* new x and that y rounded to 3 decimals (percentDistilled to 1 decimal).
C20_Recurrence ==
  /\ []((gen = "rayleigh" /\ pc = "loop" /\ iters = 0)
          => /\ loc.W = arg.initialF
             /\ loc.x = arg.initialXf
             /\ loc.step = FDiv(arg.initialF, FromInt(50))
             /\ data = <<[percentDistilled      |-> FromInt(0),
                          residueComposition    |-> arg.initialXf,
                          distillateComposition |->
                            calculateEquilibriumY(arg.initialXf, arg.alpha)]>>)
  /\ [][(gen = "rayleigh" /\ pc = "loop" /\ iters' = iters + 1)
          => /\ loc'.step = loc.step
             /\ loc'.W = FSub(loc.W, loc.step)
             /\ loc'.x = FMax(FromInt(0),
                              FDiv(FSub(FMul(loc.x, loc.W),
                                        FMul(calculateEquilibriumY(loc.x, arg.alpha),
                                             loc.step)),
                                   loc'.W))
             /\ data' = Append(data,
                  [percentDistilled      |->
                     NumFixed(FMul(FDiv(loc.distilled, arg.initialF), FromInt(100)), 1),
                   residueComposition    |-> NumFixed(loc'.x, 3),
                   distillateComposition |->
                     NumFixed(calculateEquilibriumY(loc.x, arg.alpha), 3)])]_vars

\* a returned series whose carried x differs from the residueComposition
\* emitted for it
C20_CarriedUnrounded ==
  /\ gen = "rayleigh" /\ pc = "done" /\ Len(data) > 2
  /\ loc.x # data[Len(data)].residueComposition

\* the totals of the minutes s - 1 (acc, the last of out), s, ..., n: each the
\* total before it plus the flow of its minute
RECURSIVE FlowTotals(_, _, _, _, _)
FlowTotals(mLPerMinute, s, n, acc, out) ==
  IF s > n THEN out
  ELSE CHOOSE r \in {FlowTotals(mLPerMinute, s + 1, n, a, Append(out, a)) :
                       a \in {FAdd(acc, CurrentFlow(mLPerMinute, FromInt(s)))}} : TRUE

\* the same with the trapezoid (flow(s - 1) + flow(s)) / 2 of each minute
RECURSIVE TrapezoidTotals(_, _, _, _, _)
TrapezoidTotals(mLPerMinute, s, n, acc, out) ==
  IF s > n THEN out
  ELSE CHOOSE r \in {TrapezoidTotals(mLPerMinute, s + 1, n, a, Append(out, a)) :
                       a \in {FAdd(acc, FDiv(FAdd(CurrentFlow(mLPerMinute, FromInt(s - 1)),
                                                  CurrentFlow(mLPerMinute, FromInt(s))),
                                             FromInt(2)))}} : TRUE

\* C21 as stated: in a returned flow series the flow at t = 0 is 0, the total
\* volume of the point of minute t is the sum of flow(s) for s = 0..t-1, in
\* liters, and the accumulated total is never above the trapezoidal sum.
C21_LeftSumBiasedLow ==
  (gen = "flow" /\ pc = "done")
    => \A totals \in {FlowTotals(loc.mLPerMinute, 1, Len(data) - 1, FromInt(0),
                                 <<FromInt(0)>>)} :
       \A trapezoids \in {TrapezoidTotals(loc.mLPerMinute, 1, Len(data) - 1, FromInt(0),
                                          <<FromInt(0)>>)} :
         /\ data[1].flowRate = FromInt(0)
         /\ \A j \in 1..Len(data) :
              data[j].totalVolume
                = NumFixed(FDiv(IF j = 1 THEN FromInt(0) ELSE totals[j - 1],
                                FromInt(1000)), 2)
         /\ FLe(loc.totalVol, trapezoids[Len(data)])

\* C21 amended: in a returned flow series the flow at t = 0 is 0, the total
\* volume of the point of minute t is the sum of flow(s) for s = 1..t, the
\* flow of minute t included, in liters, and the accumulated total is never
\* below the trapezoidal sum of the same flows.
C21_RightSumBiasedHigh ==
  (gen = "flow" /\ pc = "done")
    => \A totals \in {FlowTotals(loc.mLPerMinute, 1, Len(data) - 1, FromInt(0),
                                 <<FromInt(0)>>)} :
       \A trapezoids \in {TrapezoidTotals(loc.mLPerMinute, 1, Len(data) - 1, FromInt(0),
                                          <<FromInt(0)>>)} :
         /\ data[1].flowRate = FromInt(0)
         /\ \A j \in 1..Len(data) :
              /\ data[j].totalVolume = NumFixed(FDiv(totals[j], FromInt(1000)), 2)
              /\ FLe(trapezoids[j], totals[j])
         /\ loc.totalVol = totals[Len(data)]

\* a returned flow series of 61 points whose totals from minute 1 on are above
\* the flows summed up to the minute before
C21_HourIntegrated ==
  /\ gen = "flow" /\ pc = "done" /\ Len(data) = 61
  /\ \A j \in 2..61 : FLt(data[j - 1].totalVolume, data[j].totalVolume)

\* C22: the series returned by generateConductivityData has the length of the
\* series generateHeatingData returned for the same four arguments, with equal
\* time and equal value at every index; the points have the fields time and
\* conductivity, respectively time and temperature.
C22_SameSeries ==
  (gen = "conductivity" /\ pc = "done")
    => \A s \in solo :
         /\ Len(s.data) = Len(data)
         /\ \A i \in 1..Len(data) :
              /\ DOMAIN data[i] = {"time", "conductivity"}
              /\ DOMAIN s.data[i] = {"time", "temperature"}
              /\ s.data[i].time = data[i].time
              /\ s.data[i].temperature = data[i].conductivity

\* a conductivity series of 61 points returned after the heating series for
\* the same arguments, its first value not among the two end values
C22_TwinReturned ==
  /\ gen = "conductivity" /\ pc = "done" /\ solo # {}
  /\ Len(data) = 61
  /\ data[1].conductivity \notin {arg.initial, arg.final}

\* C23: the session list is never empty and currentSessionId is the id of a
\* session in the list.
C23_CurrentSessionListed ==
  /\ sessions # <<>>
  /\ \E i \in 1..Len(sessions) : sessions[i].id = currentSessionId

\* a confirmed deletion has left a single session, after three sessions were
\* created
C23_DeletedDownToOne ==
  /\ op.name = "deleteSession" /\ op.confirmed
  /\ uuids >= 3 /\ Len(sessions) = 1

\* C30: after a confirmed deleteSession(id) the session list holds no session
\* with that id, and when the deleted session was the only one the list is a
\* single new 'New Chat' session; a cancelled deleteSession leaves the session
\* list and currentSessionId unchanged.
C30_DeletedSessionGone ==
  /\ []((op.name = "deleteSession" /\ op.confirmed)
          => \A i \in 1..Len(sessions) : sessions[i].id # op.id)
  /\ [][(op'.name = "deleteSession" /\ op'.confirmed
           /\ Len(sessions) = 1 /\ sessions[1].id = op'.id)
          => (Len(sessions') = 1 /\ sessions'[1].id # op'.id
              /\ sessions'[1].title = "New Chat")]_vars
  /\ [][(op'.name = "deleteSession" /\ ~op'.confirmed)
          => UNCHANGED <<sessions, currentSessionId>>]_vars

\* C24: for initialF > 0 whose fiftieth is exact, generateRayleighData makes
\* exactly 47 transitions and returns 48 points, and after every transition
\* the remaining mass W is positive and at least 3 * step.
C24_FortySevenTransitions ==
  (/\ gen = "rayleigh" /\ pc \in {"loop", "done"}
   /\ FGt(arg.initialF, FromInt(0))
   /\ FMul(loc.step, FromInt(50)) = arg.initialF)
    => /\ iters <= 47
       /\ Len(data) = iters + 1
       /\ pc = "done" => (iters = 47 /\ Len(data) = 48)
       /\ iters >= 1 => /\ FGt(loc.W, FromInt(0))
                        /\ FLe(FMul(FromInt(3), loc.step), loc.W)

\* a call with initialF = 12.5 has returned after 47 transitions with
\* W = 3 * step left
C24_ThreeStepsLeft ==
  /\ gen = "rayleigh" /\ pc = "done" /\ iters = 47
  /\ arg.initialF = FromDec(125, 1)
  /\ loc.W = FMul(FromInt(3), loc.step)

\* the unit in the last place of a finite Number
Ulp(a) == IF a.m = <<>> THEN Subnormal(1) ELSE Round(0, <<1>>, FALSE, a.e)

\* x * W + step * sumY - initialXf * initialF as the call would compute it
BalanceError ==
  FSub(FAdd(FMul(loc.x, loc.W), FMul(loc.step, loc.sumY)),
       FMul(arg.initialXf, arg.initialF))

C26_CompositionBounds ==
  /\ []((gen = "rayleigh" /\ RayleighValid /\ pc = "loop")
          => /\ FLe(FromInt(0), loc.x) /\ FLe(loc.x, arg.initialXf)
             /\ \A i \in 1..Len(data) :
                  /\ FLe(FromInt(0), data[i].distillateComposition)
                  /\ FLe(data[i].distillateComposition, FromInt(1)))
  /\ [][(gen = "rayleigh" /\ RayleighValid /\ pc = "loop" /\ iters' = iters + 1)
          => FLe(loc.x, data'[Len(data')].distillateComposition)]_vars

\* C26, the unrounded values: y is in [0, 1] and at least the x it is computed from
C26_EquilibriumAboveResidue ==
  (gen = "rayleigh" /\ RayleighValid /\ pc = "loop")
    => \A y \in {calculateEquilibriumY(loc.x, arg.alpha)} :
         FLe(loc.x, y) /\ FLe(y, FromInt(1))


\* C27: zero is absorbing in generateRayleighData: once an x_new was negative
\* and x was clamped to 0, the carried x is 0 from then on, and every later
\* iteration commits x = 0 and emits residueComposition 0 and
\* distillateComposition 0.
C27_ZeroAbsorbing ==
  /\ []((gen = "rayleigh" /\ pc \in {"loop", "done"} /\ loc.clamped) => IsZero(loc.x))
  /\ [][(gen = "rayleigh" /\ pc = "loop" /\ loc.clamped /\ iters' = iters + 1)
          => /\ IsZero(loc'.x)
             /\ data'[Len(data')].residueComposition = Zero(0)
             /\ data'[Len(data')].distillateComposition = Zero(0)]_vars

\* an iteration after the one that clamped: its own x_new is not negative and
\* the point it emitted has both compositions 0
C27_PointAfterClamp ==
  /\ gen = "rayleigh" /\ pc = "loop" /\ loc.clamped
  /\ ~FLt(loc.x_new, Zero(0))
  /\ IsZero(loc.x)
  /\ data[Len(data)].residueComposition = Zero(0)
  /\ data[Len(data)].distillateComposition = Zero(0)


\* the series vals lies between the 2-decimal roundings of from and to and
\* moves monotonically from the one toward the other
TowardTarget(vals, from, to) ==
  /\ \A i \in 1..Len(vals) :
       \/ FLe(NumFixed(from, 2), vals[i]) /\ FLe(vals[i], NumFixed(to, 2))
       \/ FLe(NumFixed(to, 2), vals[i]) /\ FLe(vals[i], NumFixed(from, 2))
  /\ FLe(from, to) => \A i \in 2..Len(vals) : FLe(vals[i - 1], vals[i])
  /\ FLe(to, from) => \A i \in 2..Len(vals) : FLe(vals[i], vals[i - 1])

\* C28: for k > 0 every value emitted by generateHeatingData and
\* generateConductivityData lies between the initial and the target value,
\* both rounded to 2 decimals, and the series is non-decreasing when
\* initial <= target and non-increasing when initial >= target.
C28_TowardTarget ==
  /\ (gen = "heating" /\ FGt(arg.k, FromInt(0)))
       => TowardTarget([i \in 1..Len(data) |-> data[i].temperature], arg.t0, arg.tMax)
  /\ (gen = "conductivity" /\ FGt(arg.k, FromInt(0)))
       => TowardTarget([i \in 1..Len(data) |-> data[i].conductivity],
                       arg.initial, arg.final)

\* C28, the direction alone: for k > 0 the emitted series is monotone and
\* does not pass the target rounded to 2 decimals
C28_Monotone ==
  /\ (gen = "heating" /\ FGt(arg.k, FromInt(0)))
       => \A i \in 1..Len(data) :
            /\ FLe(arg.t0, arg.tMax)
                 => /\ FLe(data[i].temperature, NumFixed(arg.tMax, 2))
                    /\ i > 1 => FLe(data[i - 1].temperature, data[i].temperature)
            /\ FLe(arg.tMax, arg.t0)
                 => /\ FLe(NumFixed(arg.tMax, 2), data[i].temperature)
                    /\ i > 1 => FLe(data[i].temperature, data[i - 1].temperature)
  /\ (gen = "conductivity" /\ FGt(arg.k, FromInt(0)))
       => \A i \in 1..Len(data) :
            /\ FLe(arg.initial, arg.final)
                 => /\ FLe(data[i].conductivity, NumFixed(arg.final, 2))
                    /\ i > 1 => FLe(data[i - 1].conductivity, data[i].conductivity)
            /\ FLe(arg.final, arg.initial)
                 => /\ FLe(NumFixed(arg.final, 2), data[i].conductivity)
                    /\ i > 1 => FLe(data[i].conductivity, data[i - 1].conductivity)

\* C29: prefix stability of generateHeatingData, generateConductivityData,
\* generateFlowData and generatePowerData: the series returned for a duration
\* d1 has d1 + 1 points and is the series returned for a duration d2 >= d1 and
\* otherwise equal arguments cut after its first d1 + 1 points.
C29_PrefixStable ==
  (pc = "done" /\ solo # {})
    => \A s \in solo :
         /\ s.gen = gen
         /\ FromInt(Len(data)) = FAdd(arg.timeMinutes, FromInt(1))
         /\ Len(data) <= Len(s.data)
         /\ data = SubSeq(s.data, 1, Len(data))

\* a flow series of 3 points returned after the series of 61 points for the
\* same power and efficiency, its last accumulated volume not 0
C29_ShorterReturned ==
  /\ gen = "flow" /\ pc = "done"
  /\ Len(data) = 3
  /\ \E s \in solo : Len(s.data) = 61
  /\ ~IsZero(data[3].totalVolume)

====
